---------------------------- MODULE Spec2Model ----------------------------
(***************************************************************************)
(* firewalld helper configuration files: the reader (helper_reader with    *)
(* helper_ContentHandler) and the writer (helper_writer) of                *)
(* src/firewall/core/io/helper.py, over a small file system.               *)
(*                                                                         *)
(* File names and paths are sequences of one-character strings, so that    *)
(* endswith, startswith, slicing and os.path.dirname are computed as the   *)
(* code computes them.  A document is a sequence of markup tokens: the     *)
(* XML declaration, an element's start tag with its attributes in written  *)
(* order, character data, an end tag, a self-closing element.              *)
(***************************************************************************)
EXTENDS Integers, Sequences, FiniteSets, TLC

VARIABLES
    fsDirs,      \* the directories that exist
    fsFiles,     \* the regular files that exist: full name -> document
    log,         \* what log.warning / log.error were called with (counts)
    helper,      \* the Helper handed to helper_writer, <<>> when none is
    warg,        \* helper_writer's path argument (<<>>: None)
    wr_pc,       \* helper_writer's position
    wr_err,      \* the exception helper_writer ended with
    wr_name,     \* helper_writer's local: name
    prior,       \* what the destination held when helper_writer was called
    rd_filename, \* helper_reader's argument filename
    rd_path,     \* helper_reader's argument path
    rd_pc,       \* helper_reader's position
    rd_err,      \* the exception helper_reader ended with
    item,        \* helper_reader's local: helper (handler.item), <<>> before Helper()
    element,     \* handler._element
    pos,         \* the tokens of the open file the parser has consumed
    stack,       \* parser: names of the elements that are open
    rootClosed,  \* parser: the document element has been closed
    opened,      \* the names helper_reader has opened for reading
    returned     \* what helper_reader returned, <<>> when nothing

vars == <<fsDirs, fsFiles, log, helper, warg, wr_pc, wr_err, wr_name, prior,
          rd_filename, rd_path, rd_pc, rd_err, item, element, pos, stack,
          rootClosed, opened, returned>>

wvars == <<helper, warg, wr_pc, wr_err, wr_name, prior>>
rvars == <<rd_filename, rd_path, rd_pc, rd_err, item, element, pos, stack,
           rootClosed, opened, returned>>

---------------------------------------------------------------------------
(* Bounds of the model.                                                    *)

\* elements in the body of a document on disk
MaxBody == 3
\* entries of ports in a Helper handed to the writer
MaxPorts == 2

---------------------------------------------------------------------------
(* Strings as character sequences.                                         *)

XML == <<".", "x", "m", "l">>
OLD == <<".", "o", "l", "d">>
SLASH == <<"/">>

\* firewall.config.ETC_FIREWALLD, the user-writable configuration root
ETC_FIREWALLD == <<"/", "e">>

\* str.startswith
startswith(s, p) == Len(s) >= Len(p) /\ SubSeq(s, 1, Len(p)) = p

\* str.endswith
endswith(s, p) ==
    Len(s) >= Len(p) /\ SubSeq(s, Len(s) - Len(p) + 1, Len(s)) = p

\* "%s/%s" % (a, b)
joinname(a, b) == a \o SLASH \o b

\* str.rstrip("/")
RECURSIVE rstripslash(_)
rstripslash(s) ==
    IF s # <<>> /\ s[Len(s)] = "/" THEN rstripslash(SubSeq(s, 1, Len(s) - 1))
    ELSE s

\* os.path.dirname: the head up to the last slash, trailing slashes stripped
\* unless the head is slashes only
dirname(p) ==
    LET slashes == {i \in 1..Len(p) : p[i] = "/"}
        i == IF slashes = {} THEN 0
             ELSE CHOOSE j \in slashes : \A k \in slashes : k <= j
        head == SubSeq(p, 1, i)
    IN  IF head # <<>> /\ rstripslash(head) # <<>> THEN rstripslash(head)
        ELSE head

\* str.isalnum on one character
isalnum(c) == c \in {"a", "e", "f", "h", "l", "m", "o", "u", "x", "1", "2"}

---------------------------------------------------------------------------
(* class Helper                                                            *)

ADDITIONAL_ALNUM_CHARS == {"_", "-"}

\* element name -> required attributes; None is the empty sequence here and
\* an element without an entry is absent from the domain
PARSER_REQUIRED_ELEMENT_ATTRS ==
    [n \in {"short", "description", "helper"} |-> <<>>]

PARSER_OPTIONAL_ELEMENT_ATTRS ==
    [n \in {"helper", "port"} |->
        IF n = "helper" THEN <<"name", "version", "family">>
        ELSE <<"port", "protocol">>]

\* Helper.__init__ on top of IO_Object.__init__
NewHelper ==
    [name |-> <<>>, filename |-> <<>>, path |-> <<>>,
     builtin |-> FALSE, default |-> FALSE,
     version |-> "", short |-> "", description |-> "", family |-> "",
     ports |-> <<>>]

\* _check_ipv with a test that lets the empty string through
check_ipv_EmptyAllowed(ipv) ==
    IF ipv # "" /\ ipv \notin {"ipv4", "ipv6"} THEN "INVALID_IPV" ELSE "none"

\* Helper._check_ipv: the error it raises, "none" when it returns
check_ipv(ipv) ==
    IF ipv \notin {"ipv4", "ipv6"} THEN "INVALID_IPV" ELSE "none"

\* IO_Object.check_name: empty, or a character neither alphanumeric nor additional
check_name(name) ==
    IF Len(name) < 1 THEN "INVALID_NAME"
    ELSE IF \E i \in 1..Len(name) :
                ~isalnum(name[i]) /\ name[i] \notin ADDITIONAL_ALNUM_CHARS
         THEN "INVALID_NAME"
         ELSE "none"

\* io_object.check_port: a port number or a numeric range
check_port(port) ==
    IF port \in {"21", "80", "1-2"} THEN "none" ELSE "INVALID_PORT"

\* io_object.check_tcpudp
check_tcpudp(protocol) ==
    IF protocol \in {"tcp", "udp"} THEN "none" ELSE "INVALID_PROTOCOL"

---------------------------------------------------------------------------
(* Documents.                                                              *)

Decl == [k |-> "decl", name |-> "", attrs |-> <<>>, s |-> ""]
StartTag(n, a) == [k |-> "start", name |-> n, attrs |-> a, s |-> ""]
EndTag(n) == [k |-> "end", name |-> n, attrs |-> <<>>, s |-> ""]
Text(t) == [k |-> "text", name |-> "", attrs |-> <<>>, s |-> t]
EmptyTag(n, a) == [k |-> "empty", name |-> n, attrs |-> a, s |-> ""]

\* xml.sax attrs: "x in attrs", attrs.getNames(), attrs[x]
HasAttr(attrs, x) == \E i \in 1..Len(attrs) : attrs[i][1] = x
AttrNames(attrs) == {attrs[i][1] : i \in 1..Len(attrs)}
GetAttr(attrs, x) == attrs[CHOOSE i \in 1..Len(attrs) : attrs[i][1] = x][2]

SeqToSet(q) == {q[i] : i \in 1..Len(q)}

Whitespace == {"\n", "  "}


---------------------------------------------------------------------------
(* The content handler.  Each callback is a function of the handler's      *)
(* state; "err" is the exception it raised, "none" when it returned.       *)

\* IO_Object.parser_check_element_attrs: an element nobody declares, a
\* required attribute that is missing, an attribute that is not declared
parser_check_element_attrs(name, attrs) ==
    LET names == AttrNames(attrs)
        req == IF name \in DOMAIN PARSER_REQUIRED_ELEMENT_ATTRS
               THEN SeqToSet(PARSER_REQUIRED_ELEMENT_ATTRS[name]) ELSE {}
        opt == IF name \in DOMAIN PARSER_OPTIONAL_ELEMENT_ATTRS
               THEN SeqToSet(PARSER_OPTIONAL_ELEMENT_ATTRS[name]) ELSE {}
    IN  IF /\ name \notin DOMAIN PARSER_REQUIRED_ELEMENT_ATTRS
           /\ name \notin DOMAIN PARSER_OPTIONAL_ELEMENT_ATTRS
        THEN "PARSE_ERROR"
        ELSE IF ~(req \subseteq names) THEN "PARSE_ERROR"
        ELSE IF ~(names \subseteq (req \cup opt)) THEN "PARSE_ERROR"
        ELSE "none"

\* IO_Object_ContentHandler.startElement: a new element starts with no text
base_startElement(el) == ""

\* IO_Object_ContentHandler.characters
characters(el, content) == el \o content

\* IO_Object_ContentHandler.endElement: the text of short and description
endElement(it, el, name) ==
    IF name = "short" THEN [it EXCEPT !.short = el]
    ELSE IF name = "description" THEN [it EXCEPT !.description = el]
    ELSE it

\* the port branch without the test for an entry already in ports
startElement_port_NoDedupe(it, attrs) ==
    IF ~HasAttr(attrs, "port")
    THEN [item |-> it, warn |-> 0, err |-> "KeyError"]
    ELSE IF check_port(GetAttr(attrs, "port")) # "none"
    THEN [item |-> it, warn |-> 0, err |-> check_port(GetAttr(attrs, "port"))]
    ELSE IF ~HasAttr(attrs, "protocol")
    THEN [item |-> it, warn |-> 0, err |-> "KeyError"]
    ELSE IF check_tcpudp(GetAttr(attrs, "protocol")) # "none"
    THEN [item |-> it, warn |-> 0,
          err |-> check_tcpudp(GetAttr(attrs, "protocol"))]
    ELSE [item |-> [it EXCEPT !.ports =
                      Append(@, <<GetAttr(attrs, "port"),
                                  GetAttr(attrs, "protocol")>>)],
          warn |-> 0, err |-> "none"]

\* the port branch of helper_ContentHandler.startElement
startElement_port(it, attrs) ==
    IF ~HasAttr(attrs, "port")
    THEN [item |-> it, warn |-> 0, err |-> "KeyError"]
    ELSE IF check_port(GetAttr(attrs, "port")) # "none"
    THEN [item |-> it, warn |-> 0, err |-> check_port(GetAttr(attrs, "port"))]
    ELSE IF ~HasAttr(attrs, "protocol")
    THEN [item |-> it, warn |-> 0, err |-> "KeyError"]
    ELSE IF check_tcpudp(GetAttr(attrs, "protocol")) # "none"
    THEN [item |-> it, warn |-> 0,
          err |-> check_tcpudp(GetAttr(attrs, "protocol"))]
    ELSE LET entry == <<GetAttr(attrs, "port"), GetAttr(attrs, "protocol")>>
         IN  IF entry \notin SeqToSet(it.ports)
             THEN [item |-> [it EXCEPT !.ports = Append(@, entry)],
                   warn |-> 0, err |-> "none"]
             ELSE [item |-> it, warn |-> 1, err |-> "none"]

\* the helper branch of helper_ContentHandler.startElement: version is
\* assigned before family is checked
startElement_helper(it, attrs) ==
    LET it1 == IF HasAttr(attrs, "version")
               THEN [it EXCEPT !.version = GetAttr(attrs, "version")]
               ELSE it
    IN  IF ~HasAttr(attrs, "family")
        THEN [item |-> it1, warn |-> 0, err |-> "none"]
        ELSE IF check_ipv(GetAttr(attrs, "family")) # "none"
        THEN [item |-> it1, warn |-> 0,
              err |-> check_ipv(GetAttr(attrs, "family"))]
        ELSE [item |-> [it1 EXCEPT !.family = GetAttr(attrs, "family")],
              warn |-> 0, err |-> "none"]

\* the element-specific part of helper_ContentHandler.startElement
startElement_specific(it, name, attrs) ==
    IF name = "helper" THEN startElement_helper(it, attrs)
    ELSE IF name = "port" THEN startElement_port(it, attrs)
    ELSE [item |-> it, warn |-> 0, err |-> "none"]

\* startElement without the call of parser_check_element_attrs
startElement_Unchecked(it, name, attrs) ==
    startElement_specific(it, name, attrs)

\* startElement with the call of parser_check_element_attrs after the
\* element-specific part
startElement_LateCheck(it, name, attrs) ==
    LET r == startElement_specific(it, name, attrs)
    IN  IF r.err # "none" THEN r
        ELSE IF parser_check_element_attrs(name, attrs) # "none"
        THEN [item |-> r.item, warn |-> r.warn,
              err |-> parser_check_element_attrs(name, attrs)]
        ELSE r

\* helper_ContentHandler.startElement
startElement(it, name, attrs) ==
    IF parser_check_element_attrs(name, attrs) # "none"
    THEN [item |-> it, warn |-> 0,
          err |-> parser_check_element_attrs(name, attrs)]
    ELSE startElement_specific(it, name, attrs)

---------------------------------------------------------------------------
(* parser.parse(f): one token of the file at a time.  The state is         *)
(* [item, element, stack, rootClosed]; the result adds warn and err.       *)
(* "SAXParseException" is the parser's own error for a document that is    *)
(* not well-formed; any other err is the exception a callback raised,      *)
(* which parse() lets through.                                             *)

Malformed(st) ==
    [item |-> st.item, element |-> st.element, stack |-> st.stack,
     rootClosed |-> st.rootClosed, warn |-> 0, err |-> "SAXParseException"]

ParseStart(tok, st) ==
    IF st.rootClosed THEN Malformed(st)
    ELSE LET r == startElement(st.item, tok.name, tok.attrs)
         IN  [item |-> r.item, element |-> base_startElement(st.element),
              stack |-> <<tok.name>> \o st.stack,
              rootClosed |-> FALSE, warn |-> r.warn, err |-> r.err]

ParseEnd(tok, st) ==
    IF st.stack = <<>> \/ Head(st.stack) # tok.name THEN Malformed(st)
    ELSE [item |-> endElement(st.item, st.element, tok.name),
          element |-> st.element, stack |-> Tail(st.stack),
          rootClosed |-> Tail(st.stack) = <<>>, warn |-> 0, err |-> "none"]

ParseText(tok, st) ==
    IF st.stack = <<>>
    THEN IF tok.s \in Whitespace
         THEN [item |-> st.item, element |-> st.element, stack |-> st.stack,
               rootClosed |-> st.rootClosed, warn |-> 0, err |-> "none"]
         ELSE Malformed(st)
    ELSE [item |-> st.item, element |-> characters(st.element, tok.s),
          stack |-> st.stack, rootClosed |-> st.rootClosed,
          warn |-> 0, err |-> "none"]

ParseToken(tok, st, first) ==
    IF tok.k = "decl"
    THEN IF first
         THEN [item |-> st.item, element |-> st.element, stack |-> st.stack,
               rootClosed |-> st.rootClosed, warn |-> 0, err |-> "none"]
         ELSE Malformed(st)
    ELSE IF tok.k = "start" THEN ParseStart(tok, st)
    ELSE IF tok.k = "end" THEN ParseEnd(tok, st)
    ELSE IF tok.k = "text" THEN ParseText(tok, st)
    ELSE \* a self-closing element: its start, then its end
         LET a == ParseStart(tok, st)
         IN  IF a.err # "none" THEN a
             ELSE LET b == ParseEnd(tok, [item |-> a.item,
                                          element |-> a.element,
                                          stack |-> a.stack,
                                          rootClosed |-> a.rootClosed])
                  IN  [b EXCEPT !.warn = a.warn]

---------------------------------------------------------------------------
(* helper_reader                                                           *)

\* helper_reader without the test of the suffix
ReaderBegin_NoSuffixCheck(filename, path) ==
    LET name == SubSeq(filename, 1, Len(filename) - 4)
        h1 == [NewHelper EXCEPT !.name = name]
    IN  IF check_name(name) # "none"
        THEN [item |-> h1, err |-> check_name(name)]
        ELSE [item |-> [h1 EXCEPT
                           !.filename = filename,
                           !.path = path,
                           !.builtin = ~startswith(path, ETC_FIREWALLD),
                           !.default = ~startswith(path, ETC_FIREWALLD)],
              err |-> "none"]

\* helper_reader up to the construction of the handler: the Helper built so
\* far and the error raised
ReaderBegin(filename, path) ==
    IF ~endswith(filename, XML)
    THEN [item |-> NewHelper, err |-> "INVALID_NAME"]
    ELSE LET name == SubSeq(filename, 1, Len(filename) - 4)
             h1 == [NewHelper EXCEPT !.name = name]
         IN  IF check_name(name) # "none"
             THEN [item |-> h1, err |-> check_name(name)]
             ELSE [item |-> [h1 EXCEPT
                                !.filename = filename,
                                !.path = path,
                                !.builtin = ~startswith(path, ETC_FIREWALLD),
                                !.default = ~startswith(path, ETC_FIREWALLD)],
                   err |-> "none"]

helper_reader_begin ==
    /\ rd_pc = "idle"
    /\ wr_pc \in {"off", "done"}
    /\ LET r == ReaderBegin(rd_filename, rd_path)
       IN  /\ item' = <<r.item>>
           /\ rd_err' = r.err
           /\ rd_pc' = IF r.err = "none" THEN "open" ELSE "failed"
    /\ UNCHANGED <<fsDirs, fsFiles, log, rd_filename, rd_path, element, pos,
                   stack, rootClosed, opened, returned>>
    /\ UNCHANGED wvars

\* open(name, "r") and the start of parser.parse
helper_reader_open ==
    /\ rd_pc = "open"
    /\ LET name == joinname(rd_path, rd_filename)
       IN  IF name \in DOMAIN fsFiles
           THEN /\ opened' = opened \cup {name}
                /\ rd_pc' = "parse"
                /\ rd_err' = "none"
           ELSE /\ opened' = opened
                /\ rd_pc' = "failed"
                /\ rd_err' = "IOError"
    /\ pos' = 0
    /\ stack' = <<>>
    /\ rootClosed' = FALSE
    /\ element' = ""
    /\ UNCHANGED <<fsDirs, fsFiles, log, rd_filename, rd_path, item, returned>>
    /\ UNCHANGED wvars

\* the file helper_reader is parsing
ReadDoc == fsFiles[joinname(rd_path, rd_filename)]

\* the error helper_reader raises for the error parse() ended with
ReaderError(err) ==
    IF err = "SAXParseException" THEN "INVALID_HELPER" ELSE err

helper_reader_parse ==
    /\ rd_pc = "parse"
    /\ pos < Len(ReadDoc)
    /\ LET r == ParseToken(ReadDoc[pos + 1],
                           [item |-> item[1], element |-> element,
                            stack |-> stack, rootClosed |-> rootClosed],
                           pos = 0)
       IN  /\ item' = <<r.item>>
           /\ element' = r.element
           /\ stack' = r.stack
           /\ rootClosed' = r.rootClosed
           /\ log' = [log EXCEPT !.warning = @ + r.warn]
           /\ rd_err' = ReaderError(r.err)
           /\ rd_pc' = IF r.err = "none" THEN "parse" ELSE "failed"
    /\ pos' = pos + 1
    /\ UNCHANGED <<fsDirs, fsFiles, rd_filename, rd_path, opened, returned>>
    /\ UNCHANGED wvars

\* the end of the file: parse() returns or finds the document unfinished
\* (encode_strings changes nothing outside Python 2)
helper_reader_return ==
    /\ rd_pc = "parse"
    /\ pos = Len(ReadDoc)
    /\ IF rootClosed
       THEN /\ returned' = item
            /\ rd_pc' = "done"
            /\ rd_err' = "none"
       ELSE /\ returned' = returned
            /\ rd_pc' = "failed"
            /\ rd_err' = ReaderError("SAXParseException")
    /\ UNCHANGED <<fsDirs, fsFiles, log, rd_filename, rd_path, item, element,
                   pos, stack, rootClosed, opened>>
    /\ UNCHANGED wvars

---------------------------------------------------------------------------
(* helper_writer                                                           *)

\* name, from the path argument or helper.path and helper.filename or
\* helper.name
WriterName(h, path) ==
    LET p == IF path # <<>> THEN path ELSE h.path
    IN  IF h.filename # <<>> THEN joinname(p, h.filename)
        ELSE joinname(p, h.name \o XML)

\* os.path.exists
exists(dirs, files, name) == name \in dirs \/ name \in DOMAIN files

\* the backup step with the copy left out
Backup_NoCopy(dirs, files, name, fail) ==
    [files |-> files, errors |-> 0]

\* the backup of an existing destination: shutil.copy2 inside try/except,
\* "fail" is copy2 raising for a reason of the file system's; a directory
\* cannot be copied.  Gives the files and the number of log.error calls.
Backup(dirs, files, name, fail) ==
    IF exists(dirs, files, name)
    THEN IF fail \/ name \notin DOMAIN files
         THEN [files |-> files, errors |-> 1]
         ELSE [files |-> ((name \o OLD) :> files[name]) @@ files,
               errors |-> 0]
    ELSE [files |-> files, errors |-> 0]

\* os.mkdir: "denied" is the file system refusing for a reason of its own
mkdir(dirs, files, p, denied) ==
    IF denied THEN [dirs |-> dirs, err |-> "EACCES"]
    ELSE IF exists(dirs, files, p) THEN [dirs |-> dirs, err |-> "EEXIST"]
    ELSE IF dirname(p) \notin dirs THEN [dirs |-> dirs, err |-> "ENOENT"]
    ELSE [dirs |-> dirs \cup {p}, err |-> "none"]

\* the directory creation of helper_writer; "denied" is the number of the
\* os.mkdir call the file system refuses (0: none)
MakeDirs(dirs, files, dirpath, denied) ==
    IF startswith(dirpath, ETC_FIREWALLD) /\ ~exists(dirs, files, dirpath)
    THEN LET a == IF ~exists(dirs, files, ETC_FIREWALLD)
                  THEN mkdir(dirs, files, ETC_FIREWALLD, denied = 1)
                  ELSE [dirs |-> dirs, err |-> "none"]
             n == IF ~exists(dirs, files, ETC_FIREWALLD) THEN 2 ELSE 1
         IN  IF a.err # "none" THEN a
             ELSE mkdir(a.dirs, files, dirpath, denied = n)
    ELSE [dirs |-> dirs, err |-> "none"]

\* io.open(name, mode='wt'): the file is created or truncated
OpenWrite(dirs, files, name) ==
    IF name \in dirs THEN [files |-> files, err |-> "IsADirectoryError"]
    ELSE IF dirname(name) \notin dirs
    THEN [files |-> files, err |-> "FileNotFoundError"]
    ELSE [files |-> (name :> <<>>) @@ files, err |-> "none"]

\* the attributes of the helper element without family
HelperAttrs_NoFamily(h) ==
    IF h.version # "" THEN << <<"version", h.version>> >> ELSE <<>>

\* the attributes of the helper element, in the order they are put in attrs
HelperAttrs(h) ==
    (IF h.version # "" THEN << <<"version", h.version>> >> ELSE <<>>)
    \o (IF h.family # "" THEN << <<"family", h.family>> >> ELSE <<>>)

\* the loop over helper.ports
RECURSIVE PortTokens(_)
PortTokens(ports) ==
    IF ports = <<>> THEN <<>>
    ELSE << Text("  "),
            EmptyTag("port", << <<"port", Head(ports)[1]>>,
                                <<"protocol", Head(ports)[2]>> >>),
            Text("\n") >> \o PortTokens(Tail(ports))

\* the document with description written before short
WriterDoc_DescriptionFirst(h) ==
    << Decl, StartTag("helper", HelperAttrs(h)), Text("\n") >>
    \o (IF h.description # ""
        THEN << Text("  "), StartTag("description", <<>>),
                Text(h.description), EndTag("description"), Text("\n") >>
        ELSE <<>>)
    \o (IF h.short # ""
        THEN << Text("  "), StartTag("short", <<>>), Text(h.short),
                EndTag("short"), Text("\n") >>
        ELSE <<>>)
    \o PortTokens(h.ports)
    \o << EndTag("helper"), Text("\n") >>

\* what helper_writer hands to the generator, from startDocument to
\* endDocument
WriterDoc(h) ==
    << Decl, StartTag("helper", HelperAttrs(h)), Text("\n") >>
    \o (IF h.short # ""
        THEN << Text("  "), StartTag("short", <<>>), Text(h.short),
                EndTag("short"), Text("\n") >>
        ELSE <<>>)
    \o (IF h.description # ""
        THEN << Text("  "), StartTag("description", <<>>),
                Text(h.description), EndTag("description"), Text("\n") >>
        ELSE <<>>)
    \o PortTokens(h.ports)
    \o << EndTag("helper"), Text("\n") >>

\* name is computed, an existing destination is backed up
helper_writer_backup ==
    /\ wr_pc = "start"
    /\ \E fail \in BOOLEAN :
        LET name == WriterName(helper[1], warg)
            b == Backup(fsDirs, fsFiles, name, fail)
        IN  /\ wr_name' = name
            /\ fsFiles' = b.files
            /\ log' = [log EXCEPT !.error = @ + b.errors]
    /\ wr_pc' = "mkdir"
    /\ UNCHANGED <<fsDirs, helper, warg, wr_err, prior>>
    /\ UNCHANGED rvars

\* the directory of the destination is created
helper_writer_mkdir ==
    /\ wr_pc = "mkdir"
    /\ \E denied \in 0..2 :
        LET m == MakeDirs(fsDirs, fsFiles, dirname(wr_name), denied)
        IN  /\ fsDirs' = m.dirs
            /\ wr_err' = m.err
            /\ wr_pc' = IF m.err = "none" THEN "open" ELSE "failed"
    /\ UNCHANGED <<fsFiles, log, helper, warg, wr_name, prior>>
    /\ UNCHANGED rvars

\* the destination is opened for writing
helper_writer_open ==
    /\ wr_pc = "open"
    /\ LET o == OpenWrite(fsDirs, fsFiles, wr_name)
       IN  /\ fsFiles' = o.files
           /\ wr_err' = o.err
           /\ wr_pc' = IF o.err = "none" THEN "emit" ELSE "failed"
    /\ UNCHANGED <<fsDirs, log, helper, warg, wr_name, prior>>
    /\ UNCHANGED rvars

\* the document is written and the file closed
helper_writer_emit ==
    /\ wr_pc = "emit"
    /\ fsFiles' = [fsFiles EXCEPT ![wr_name] = WriterDoc(helper[1])]
    /\ wr_pc' = "done"
    /\ UNCHANGED <<fsDirs, log, helper, warg, wr_err, wr_name, prior>>
    /\ UNCHANGED rvars

---------------------------------------------------------------------------
(* The inputs: file names, paths, documents on disk, Helpers to write.     *)

F_ok == <<"f">> \o XML
F_additional == <<"a", "_", "1", "-">> \o XML
\* no suffix, and a valid name once four characters are cut off
F_nosuffix == <<"f", "a", "x", "m", "l">>
F_short == <<"f">>
F_badchar == <<"f", "!">> \o XML
F_noname == XML
F_backup == F_ok \o OLD
Filenames ==
    {F_ok, F_additional, F_nosuffix, F_short, F_badchar, F_noname, F_backup}

P_root == <<"/">>
P_helpers == ETC_FIREWALLD \o <<"/", "h">>
P_usr == <<"/", "u">>
Paths == {ETC_FIREWALLD, P_helpers, P_usr}

\* the states of the directory tree: a directory exists only inside one
\* that exists
DirStates ==
    {D \cup {P_root} : D \in {E \in SUBSET Paths :
                                 P_helpers \in E => ETC_FIREWALLD \in E}}

Port_21_tcp == << <<"port", "21">>, <<"protocol", "tcp">> >>
Port_80_udp == << <<"port", "80">>, <<"protocol", "udp">> >>

\* the attributes of the root element of a document on disk
RootAttrs ==
    { <<>>,
      << <<"version", "1">> >>,
      << <<"family", "ipv4">> >>,
      << <<"version", "1">>, <<"family", "ipv6">> >>,
      << <<"name", "f">> >>,
      << <<"family", "">> >>,
      << <<"family", "ipv5">> >>,
      << <<"version", "1">>, <<"family", "IPv4">> >>,
      << <<"foo", "bar">> >>,
      << <<"version", "1">>, <<"foo", "bar">> >> }

\* elements the reader accepts
GoodElems ==
    { << StartTag("short", <<>>), Text("S"), EndTag("short") >>,
      << StartTag("description", <<>>), Text("d"), EndTag("description") >>,
      << EmptyTag("port", Port_21_tcp) >>,
      << EmptyTag("port", Port_80_udp) >> }

\* elements the reader fails on
BadElems ==
    { << EmptyTag("port", << <<"port", "x">>, <<"protocol", "tcp">> >>) >>,
      << EmptyTag("port", << <<"port", "21">>, <<"protocol", "icmp">> >>) >>,
      << EmptyTag("port", << <<"protocol", "tcp">> >>) >>,
      << EmptyTag("port", << <<"port", "21">> >>) >>,
      << EmptyTag("port", Port_21_tcp \o << <<"foo", "bar">> >>) >>,
      << StartTag("short", << <<"foo", "bar">> >>), Text("S"),
         EndTag("short") >>,
      << EmptyTag("foo", <<>>) >> }

SeqsUpTo(S, n) == UNION {[1..k -> S] : k \in 0..n}

RECURSIVE Flatten(_)
Flatten(q) == IF q = <<>> THEN <<>> ELSE Head(q) \o Flatten(Tail(q))

\* the bodies: elements the reader accepts, then at most one it fails on,
\* which ends the read
Bodies ==
    {Flatten(q) : q \in SeqsUpTo(GoodElems, MaxBody)}
    \cup {Flatten(q) \o b : q \in SeqsUpTo(GoodElems, MaxBody - 1),
                            b \in BadElems}

\* well-formed documents
WellFormedDocs ==
    {<<Decl, StartTag("helper", a)>> \o b \o <<EndTag("helper"), Text("\n")>> :
        a \in RootAttrs, b \in Bodies}

\* documents that are not well-formed: the root is never closed, is closed
\* by another element's end tag, is followed by a second root or by text,
\* or is missing
MalformedDocs ==
    {<<Decl, StartTag("helper", <<>>)>> \o b : b \in Bodies}
    \cup {<<Decl, StartTag("helper", <<>>)>> \o b \o <<EndTag("short")>> :
            b \in Bodies}
    \cup {<<Decl, StartTag("helper", <<>>)>> \o b
            \o <<EndTag("helper"), t>> :
            b \in Bodies, t \in {EmptyTag("port", Port_21_tcp), Text("S"), Decl}}
    \cup {<<>>, <<Decl>>}

ReadDocs == WellFormedDocs \cup MalformedDocs

OldDoc == WriterDoc([NewHelper EXCEPT !.short = "old"])
OlderDoc == WriterDoc([NewHelper EXCEPT !.short = "older"])

\* the reader's inputs: every document under a good file name, and every
\* file name, with and without a file behind it
ReadInputs ==
    {[filename |-> F_ok, path |-> P_helpers, file |-> <<d>>] : d \in ReadDocs}
    \cup {[filename |-> f, path |-> p, file |-> d] :
            f \in Filenames, p \in {P_helpers, P_usr}, d \in {<<>>, <<OldDoc>>}}

PortPool == { <<"21", "tcp">>, <<"80", "udp">>, <<"x", "tcp">> }

\* Helpers a caller may hand to the writer, valid or not
WriteRecords ==
    {[NewHelper EXCEPT !.name = <<"f">>, !.filename = fn, !.path = P_helpers,
                       !.version = v, !.short = sh, !.description = de,
                       !.family = fa, !.ports = po] :
        fn \in {<<>>, F_ok}, v \in {"", "1"}, sh \in {"", "S"},
        de \in {"", "d"}, fa \in {"", "ipv4", "ipv6", "ipv5"},
        po \in SeqsUpTo(PortPool, MaxPorts)}

\* the two Helpers written to every state of the file system
FsRecords ==
    {[NewHelper EXCEPT !.name = <<"f">>, !.filename = fn, !.path = p] :
        fn \in {<<>>, F_ok, F_nosuffix}, p \in Paths}
    \cup {[NewHelper EXCEPT !.name = <<"f">>, !.path = p,
                            !.description = "d",
                            !.ports = << <<"80", "tcp">> >>] : p \in Paths}

\* the writer's inputs
WriteInputs ==
    {[helper |-> h, warg |-> <<>>, dirs |-> {P_root, ETC_FIREWALLD, P_helpers},
      prior |-> <<>>, backup |-> <<>>] : h \in WriteRecords}
    \cup {[helper |-> h, warg |-> w, dirs |-> D, prior |-> pr, backup |-> bk] :
            h \in FsRecords, w \in {<<>>, P_usr}, D \in DirStates,
            pr \in {<<>>, <<OldDoc>>}, bk \in {<<>>, <<OlderDoc>>}}

\* the file system with file "file" under "name" and "backup" under name.old
FilesOf(name, file, backup) ==
    LET a == IF file # <<>> THEN (name :> file[1]) ELSE <<>>
        b == IF backup # <<>> THEN ((name \o OLD) :> backup[1]) ELSE <<>>
    IN  a @@ b

InitRead ==
    \E in \in ReadInputs :
        /\ fsDirs = {P_root, ETC_FIREWALLD, P_helpers, P_usr}
        /\ fsFiles = FilesOf(joinname(in.path, in.filename), in.file, <<>>)
        /\ rd_filename = in.filename
        /\ rd_path = in.path
        /\ helper = <<>>
        /\ warg = <<>>
        /\ wr_pc = "off"
        /\ wr_name = <<>>
        /\ prior = <<>>

InitWrite ==
    \E in \in WriteInputs :
        LET name == WriterName(in.helper, in.warg)
        IN  /\ dirname(name) \in in.dirs \/ (in.prior = <<>> /\ in.backup = <<>>)
            /\ fsDirs = in.dirs
            /\ fsFiles = FilesOf(name, in.prior, in.backup)
            /\ helper = <<in.helper>>
            /\ warg = in.warg
            /\ wr_pc = "start"
            /\ wr_name = <<>>
            /\ prior = in.prior
            \* the caller reads back what it wrote
            /\ rd_path = (IF in.warg # <<>> THEN in.warg ELSE in.helper.path)
            /\ rd_filename = (IF in.helper.filename # <<>>
                              THEN in.helper.filename
                              ELSE in.helper.name \o XML)

Init ==
    /\ InitRead \/ InitWrite
    /\ log = [warning |-> 0, error |-> 0]
    /\ wr_err = "none"
    /\ rd_pc = "idle"
    /\ rd_err = "none"
    /\ item = <<>>
    /\ element = ""
    /\ pos = 0
    /\ stack = <<>>
    /\ rootClosed = FALSE
    /\ opened = {}
    /\ returned = <<>>

Next ==
    \/ helper_reader_begin
    \/ helper_reader_open
    \/ helper_reader_parse
    \/ helper_reader_return
    \/ helper_writer_backup
    \/ helper_writer_mkdir
    \/ helper_writer_open
    \/ helper_writer_emit

Spec == Init /\ [][Next]_vars

---------------------------------------------------------------------------
(* Properties.                                                             *)

\* the tokens the parser has consumed
Processed == SubSeq(ReadDoc, 1, pos)

\* the token the parser consumes next
NextToken == ReadDoc[pos + 1]

IsElement(tok) == tok.k \in {"start", "empty"}

\* the fields a document carries
Fields(h) == <<h.version, h.short, h.description, h.family, h.ports>>

NoDuplicates(q) == \A i, j \in 1..Len(q) : q[i] = q[j] => i = j

\* the Data Model's invariants, for a Helper a caller built
ValidRecord(h) ==
    /\ h.name # <<>>
    /\ \A i \in 1..Len(h.name) :
          isalnum(h.name[i]) \/ h.name[i] \in {"_", "-"}
    /\ h.filename \in {<<>>, h.name \o XML}
    /\ h.family \in {"", "ipv4", "ipv6"}
    /\ \A i \in 1..Len(h.ports) :
          /\ h.ports[i][1] \in {"21", "80", "1-2"}
          /\ h.ports[i][2] \in {"tcp", "udp"}
    /\ NoDuplicates(h.ports)

\* C1: a valid Helper that helper_writer wrote is read back by
\* helper_reader without a failure, and the record returned has the same
\* version, short, description, family and ports.
C1_RoundTrip ==
    (wr_pc = "done" /\ ValidRecord(helper[1])) =>
        /\ rd_pc # "failed"
        /\ rd_pc = "done" =>
              /\ returned # <<>>
              /\ Fields(returned[1]) = Fields(helper[1])

C1_Witness ==
    /\ wr_pc = "done"
    /\ rd_pc = "done"
    /\ ValidRecord(helper[1])
    /\ Len(helper[1].ports) = 2
    /\ helper[1].version # ""
    /\ helper[1].family # ""
    /\ helper[1].short # ""
    /\ helper[1].description # ""

\* the (port, protocol) pairs of the port elements among tokens q
RECURSIVE PortPairsOf(_)
PortPairsOf(q) ==
    IF q = <<>> THEN <<>>
    ELSE IF IsElement(Head(q)) /\ Head(q).name = "port"
    THEN << <<GetAttr(Head(q).attrs, "port"),
              GetAttr(Head(q).attrs, "protocol")>> >>
         \o PortPairsOf(Tail(q))
    ELSE PortPairsOf(Tail(q))

\* q without the entries that repeat an earlier one
FirstOccurrences(q) ==
    LET keep == {i \in 1..Len(q) : \A j \in 1..(i - 1) : q[j] # q[i]}
        F[i \in 0..Len(q)] ==
            IF i = 0 THEN <<>>
            ELSE IF i \in keep THEN Append(F[i - 1], q[i]) ELSE F[i - 1]
    IN  F[Len(q)]

C2_State ==
    rd_pc \in {"parse", "done"} =>
        /\ NoDuplicates(item[1].ports)
        /\ item[1].ports = FirstOccurrences(PortPairsOf(Processed))
        /\ log.warning = Len(PortPairsOf(Processed)) - Len(item[1].ports)

C2_Step ==
    (/\ rd_pc = "parse"
     /\ pos < Len(ReadDoc)
     /\ ~rootClosed
     /\ IsElement(NextToken)
     /\ NextToken.name = "port"
     /\ AttrNames(NextToken.attrs) = {"port", "protocol"}
     /\ <<GetAttr(NextToken.attrs, "port"),
          GetAttr(NextToken.attrs, "protocol")>> \in SeqToSet(item[1].ports))
    => /\ item' = item
       /\ log'.warning = log.warning + 1
       /\ rd_pc' = "parse"

\* C2: while the read has not failed, ports holds no pair twice and is the
\* sequence of first occurrences of the pairs of the port elements read so
\* far, with one warning logged per repeated pair; a port element whose
\* pair is already in ports leaves the record unchanged, logs a warning,
\* and the read goes on.
C2_FirstOccurrences == [](C2_State) /\ [][C2_Step]_vars

C2_Witness ==
    /\ rd_pc = "done"
    /\ Len(returned[1].ports) = 2
    /\ log.warning = 1
    /\ Len(PortPairsOf(Processed)) = 3

C3_State ==
    /\ item # <<>> => item[1].family \in {"", "ipv4", "ipv6"}
    /\ returned # <<>> => returned[1].family \in {"", "ipv4", "ipv6"}

C3_Step ==
    (/\ rd_pc = "parse"
     /\ pos < Len(ReadDoc)
     /\ ~rootClosed
     /\ NextToken.k = "start"
     /\ NextToken.name = "helper"
     /\ "family" \in AttrNames(NextToken.attrs)
     /\ AttrNames(NextToken.attrs) \subseteq {"name", "version", "family"})
    => IF GetAttr(NextToken.attrs, "family") \in {"ipv4", "ipv6"}
       THEN /\ rd_pc' = "parse"
            /\ item'[1].family = GetAttr(NextToken.attrs, "family")
       ELSE /\ rd_pc' = "failed"
            /\ rd_err' = "INVALID_IPV"
            /\ item'[1].family = item[1].family

\* C3: a helper element's family attribute other than "ipv4" or "ipv6"
\* (the empty string too) fails the read with the invalid-family error and
\* is not assigned; "ipv4" and "ipv6" are assigned and the read goes on; the
\* family of the record being built, and of a record returned, is always
\* one of "", "ipv4", "ipv6".
C3_Family == [](C3_State) /\ [][C3_Step]_vars

C3_Witness ==
    /\ rd_pc = "failed"
    /\ rd_err = "INVALID_IPV"
    /\ wr_pc = "off"
    /\ GetAttr(ReadDoc[pos].attrs, "family") = ""

\* the root element the claim describes: version iff non-empty, family iff
\* non-empty, version first
C4_Root(h) ==
    StartTag("helper",
        IF h.version # "" /\ h.family # ""
        THEN << <<"version", h.version>>, <<"family", h.family>> >>
        ELSE IF h.version # "" THEN << <<"version", h.version>> >>
        ELSE IF h.family # "" THEN << <<"family", h.family>> >>
        ELSE <<>>)

\* indent, element with its text, newline; nothing for an empty text
C4_TextElement(n, t) ==
    IF t = "" THEN <<>>
    ELSE <<Text("  "), StartTag(n, <<>>), Text(t), EndTag(n), Text("\n")>>

\* indent, self-closing port element, newline, per entry in stored order
C4_Ports(ports) ==
    [i \in 1..(3 * Len(ports)) |->
        IF i % 3 = 1 THEN Text("  ")
        ELSE IF i % 3 = 0 THEN Text("\n")
        ELSE EmptyTag("port",
                << <<"port", ports[(i + 1) \div 3][1]>>,
                   <<"protocol", ports[(i + 1) \div 3][2]>> >>)]

\* C4: the document helper_writer leaves in the destination is this
\* function of version, family, short, description and ports, in this
\* order.
C4_Document ==
    wr_pc = "done" =>
        fsFiles[wr_name] =
            <<Decl, C4_Root(helper[1]), Text("\n")>>
            \o C4_TextElement("short", helper[1].short)
            \o C4_TextElement("description", helper[1].description)
            \o C4_Ports(helper[1].ports)
            \o <<EndTag("helper"), Text("\n")>>

C4_Witness ==
    /\ wr_pc = "done"
    /\ helper[1].version # ""
    /\ helper[1].family # ""
    /\ helper[1].short # ""
    /\ helper[1].description # ""
    /\ Len(helper[1].ports) = 2
    /\ helper[1].ports[1] # helper[1].ports[2]

\* an element with an attribute its name does not declare
UnrecognizedAttr(tok) ==
    /\ IsElement(tok)
    /\ \/ tok.name = "helper"
          /\ ~(AttrNames(tok.attrs) \subseteq {"name", "version", "family"})
       \/ tok.name = "port"
          /\ ~(AttrNames(tok.attrs) \subseteq {"port", "protocol"})
       \/ tok.name \in {"short", "description"} /\ tok.attrs # <<>>

\* the error conditions of a read, told from the inputs alone
C5_ErrorCondition ==
    \/ ~endswith(rd_filename, XML)
    \/ rd_filename \in {F_badchar, F_noname}
    \/ ReadDoc \in MalformedDocs
    \/ \E i \in 1..Len(ReadDoc) :
        LET tok == ReadDoc[i]
        IN  \/ UnrecognizedAttr(tok)
            \/ /\ IsElement(tok) /\ tok.name = "helper"
               /\ HasAttr(tok.attrs, "family")
               /\ GetAttr(tok.attrs, "family") \notin {"ipv4", "ipv6"}
            \/ /\ IsElement(tok) /\ tok.name = "port"
               /\ HasAttr(tok.attrs, "port")
               /\ GetAttr(tok.attrs, "port") \notin {"21", "80", "1-2"}
            \/ /\ IsElement(tok) /\ tok.name = "port"
               /\ HasAttr(tok.attrs, "protocol")
               /\ GetAttr(tok.attrs, "protocol") \notin {"tcp", "udp"}

\* C5: a read that failed has returned no record, whatever was assigned to
\* the instance being built; a read whose file name or document has one of
\* the error conditions does not end with a record.
C5_NoPartialRecord ==
    /\ rd_pc = "failed" => returned = <<>>
    /\ rd_pc # "done" => returned = <<>>
    /\ rd_pc = "done" => (returned = item /\ ~C5_ErrorCondition)

C5_Witness ==
    /\ rd_pc = "failed"
    /\ rd_err = "INVALID_PROTOCOL"
    /\ item[1].version # ""
    /\ item[1].short # ""
    /\ item[1].ports # <<>>
    /\ returned = <<>>

\* a port element without its port or its protocol attribute
LacksPortAttr(tok) ==
    /\ IsElement(tok)
    /\ tok.name = "port"
    /\ ~({"port", "protocol"} \subseteq AttrNames(tok.attrs))

\* C6: a port element that lacks port or protocol is never read past, and
\* the read it ends fails with a FirewallError and its error kind.
C6_MissingAttrTyped ==
    /\ rd_pc \in {"parse", "done"} =>
          \A i \in 1..pos : ~LacksPortAttr(ReadDoc[i])
    /\ (rd_pc = "failed" /\ pos >= 1 /\ LacksPortAttr(ReadDoc[pos])) =>
          rd_err \in {"INVALID_NAME", "INVALID_HELPER", "PARSE_ERROR",
                      "INVALID_IPV", "INVALID_PORT", "INVALID_PROTOCOL"}

\* C7: an element with an unrecognized attribute fails the read with the
\* parse error and changes nothing of the record being built.
C7_ShapeCheckFirst ==
    [][(/\ rd_pc = "parse"
        /\ pos < Len(ReadDoc)
        /\ ~rootClosed
        /\ UnrecognizedAttr(NextToken))
       => /\ rd_pc' = "failed"
          /\ rd_err' = "PARSE_ERROR"
          /\ item' = item]_vars

C7_Witness ==
    /\ rd_pc = "failed"
    /\ rd_err = "PARSE_ERROR"
    /\ pos = 2
    /\ HasAttr(ReadDoc[2].attrs, "version")
    /\ HasAttr(ReadDoc[2].attrs, "foo")
    /\ item[1].version = ""

\* C8: with a file name that does not end in ".xml", or whose stem is empty
\* or has a character outside alphanumerics, "_" and "-", helper_reader
\* fails with the invalid-name error and has opened no file.
C8_SuffixBeforeOpen ==
    (/\ rd_pc # "idle"
     /\ \/ ~endswith(rd_filename, XML)
        \/ rd_filename \in {F_badchar, F_noname})
    => /\ rd_pc = "failed"
       /\ rd_err = "INVALID_NAME"
       /\ opened = {}

C8_Witness ==
    /\ rd_pc = "failed"
    /\ rd_filename = F_nosuffix
    /\ joinname(rd_path, rd_filename) \in DOMAIN fsFiles
    /\ opened = {}

\* the backup file holds what the destination held at the call
BackupHoldsPrior ==
    /\ (wr_name \o OLD) \in DOMAIN fsFiles
    /\ fsFiles[wr_name \o OLD] = prior[1]

\* C9 as claimed: when helper_writer opens an existing destination for
\* writing, and from then on, the prior version is in the backup file.
C9_PriorPreserved ==
    (wr_pc \in {"open", "emit", "done"} /\ prior # <<>>)
        => BackupHoldsPrior

\* C9 as amended: the same when no backup failure was logged; and with an
\* existing destination the write is not aborted, the backup failed or not.
C9_PreservedUnlessFailed ==
    /\ (wr_pc \in {"open", "emit", "done"} /\ prior # <<>>
          /\ log.error = 0) => BackupHoldsPrior
    /\ (wr_pc \notin {"off", "start"} /\ prior = <<>>) => log.error = 0
    /\ prior # <<>> => wr_pc # "failed"

C9_Witness ==
    /\ wr_pc = "done"
    /\ prior # <<>>
    /\ log.error = 0
    /\ fsFiles[wr_name] # prior[1]
    /\ BackupHoldsPrior

\* the destination's parent directory is the root or lies inside it
UnderRoot(d) == d = ETC_FIREWALLD \/ startswith(d, ETC_FIREWALLD \o SLASH)

\* C10: the directory step creates a missing parent directory under the
\* root (the root itself included), and the root if absent, and goes on to
\* open the destination, or fails because the file system refused a
\* creation; otherwise it creates nothing.
C10_DirectoryCreated ==
    [][wr_pc = "mkdir" =>
        IF UnderRoot(dirname(wr_name)) /\ dirname(wr_name) \notin fsDirs
        THEN \/ /\ wr_pc' = "open"
                /\ dirname(wr_name) \in fsDirs'
                /\ ETC_FIREWALLD \in fsDirs'
             \/ /\ wr_pc' = "failed"
                /\ wr_err' = "EACCES"
        ELSE /\ fsDirs' = fsDirs
             /\ wr_pc' = "open"]_vars

=============================================================================
